---------------------------- MODULE Spec2Model ----------------------------
(***************************************************************************)
(* A model of the AVF club scraper: the fetcher with retry and backoff,    *)
(* the extractor of contact records, the row store (CSV writer), the       *)
(* orchestrator, and the aggregator that validates, cleans and combines    *)
(* the row-store files into workbooks.                                     *)
(*                                                                         *)
(* Text is a sequence of one-character strings, so that trimming, regex    *)
(* search and filename sanitising are computed character by character.     *)
(***************************************************************************)
EXTENDS Integers, Sequences, FiniteSets, TLC

VARIABLES
    \* ---- orchestrator run (club_scraper.py) ----
    clubs,          \* the ordered targets of the run: the keys of the clubs dict
    retries,        \* the retry limit handed to fetch_html_with_curl
    diskFaulty,     \* environment: whether a file write of this run can fail
    pc,             \* where the run stands
    idx,            \* i of scrape_all_clubs' loop (1-based)
    attempt,        \* attempt of fetch_html_with_curl's loop (0-based)
    nAttempts,      \* history: subprocess runs of the current fetch
    waits,          \* history: backoff sleeps of the current fetch, in seconds
    missingAt,      \* history: the run of the current fetch that found no curl
    fetchRet,       \* how the current fetch returned
    html,           \* the document the fetch returned
    trainers_data,  \* the records parse_trainer_data returned
    results,        \* scrape_all_clubs' results map
    extracted,      \* history: target -> the records extracted from its document
    log,            \* history: the targets processed and the delays slept, in order
    files,          \* the output directory: file stem -> CSV content
    interrupts,     \* history: the user interrupts that arrived, in order
    \* ---- aggregator (data_processor.py) ----
    books,          \* workbooks written: name -> sequence of sheets
    summary,        \* what get_data_summary returned last
    aggOp,          \* the aggregator operation that ran last
    aggRet,         \* what it returned
    \* ---- pure functions applied to a drawn input ----
    arg,
    ret

\* the variables of a run but pc and files
runVars == <<clubs, retries, diskFaulty, idx, attempt, nAttempts, waits,
             missingAt, fetchRet, html, trainers_data, results, extracted, log,
             interrupts>>
aggVars == <<books, summary, aggOp, aggRet>>
fnVars  == <<arg, ret>>

vars == <<pc, files, runVars, aggVars, fnVars>>

(***************************************************************************)
(* Bounds of the model.                                                    *)
(***************************************************************************)
MaxRetries == 3     \* retry limits 0..MaxRetries
MaxClubs   == 2     \* targets per run
MaxElems   == 4     \* sibling elements per document
MaxNumLen  == 2     \* characters after the optional '+' of a phone number
MaxFiles   == 2     \* row-store files in the directory of the aggregator
MaxLinks   == 2     \* links per data block
MaxRows    == 2     \* rows of a table handed to clean_data
MaxRecords == 2     \* records handed to one save
MaxInterrupts == 1  \* user interrupts during one run of main

(***************************************************************************)
(* Text                                                                    *)
(***************************************************************************)
\* Values that are no text, each a one-element sequence whose element is no
\* character, so that it compares with any text and equals none.
None    == <<"<None>">>      \* Python's None
NoTag   == <<"<NoTag>">>     \* select_one found no element
NaN     == <<"<NaN>">>       \* a missing cell of a DataFrame
Raises  == <<"<Raises>">>    \* an element whose reading raises an exception

NA == <<"N", "/", "A">>

Space == {" ", "\t"}
Digit == {"0", "1", "2", "3", "4", "5", "6", "7", "8", "9"}

Min(S) == CHOOSE x \in S : \A y \in S : x <= y

RECURSIVE LStrip(_)
LStrip(t) == IF t # <<>> /\ Head(t) \in Space THEN LStrip(Tail(t)) ELSE t

RECURSIVE RStrip(_)
RStrip(t) ==
    IF t # <<>> /\ t[Len(t)] \in Space THEN RStrip(SubSeq(t, 1, Len(t) - 1)) ELSE t

\* str.strip() / get_text(strip=True) of one text node
Strip(t) == RStrip(LStrip(t))

\* whether the literal lit stands in t at position p
StartsWith(t, p, lit) ==
    /\ p >= 1
    /\ p + Len(lit) - 1 <= Len(t)
    /\ SubSeq(t, p, p + Len(lit) - 1) = lit

Contains(t, lit) == \E p \in 1..(Len(t) + 1) : StartsWith(t, p, lit)

\* the position after the longest run of characters of class C from p on
RECURSIVE SkipClass(_, _, _)
SkipClass(t, p, C) ==
    IF p <= Len(t) /\ t[p] \in C THEN SkipClass(t, p + 1, C) ELSE p

\* the position of the first quote at or after p (Len(t) + 1 when none)
RECURSIVE SkipNotQuote(_, _)
SkipNotQuote(t, p) ==
    IF p <= Len(t) /\ t[p] # "'" THEN SkipNotQuote(t, p + 1) ELSE p

CharAt(t, p) == IF p >= 1 /\ p <= Len(t) THEN t[p] ELSE "EOT"

RECURSIVE Join(_, _)
Join(parts, sep) ==
    IF parts = <<>> THEN <<>>
    ELSE IF Len(parts) = 1 THEN parts[1]
    ELSE parts[1] \o sep \o Join(Tail(parts), sep)

\* Tag.get_text(separator=" ", strip=True): every text node stripped, the
\* empty ones dropped, the rest joined by the separator
IsNonEmpty(t) == t # <<>>
StripAll(nodes) == [k \in 1..Len(nodes) |-> Strip(nodes[k])]
GetText(nodes, sep) == Join(SelectSeq(StripAll(nodes), IsNonEmpty), sep)

(***************************************************************************)
(* Configuration (config.py)                                               *)
(***************************************************************************)
CSV_FIELDNAMES ==
    <<"club", "role", "name", "mobile_phone", "private_phone", "email">>

Fields == {CSV_FIELDNAMES[k] : k \in 1..Len(CSV_FIELDNAMES)}

DELAY_BETWEEN_REQUESTS == 3

MAX_RETRY_ATTEMPTS == 3

(***************************************************************************)
(* Extractor (club_scraper.py)                                             *)
(*                                                                         *)
(* A document is the sequence of the sibling elements under div.liste.     *)
(* An element has a kind: "heading" (div.row.heading), "row" (div.row) or  *)
(* "other"; h5 and ftName hold the raw text of its h5 and span.ftName      *)
(* descendants (NoTag when it has none); links holds the href of each of   *)
(* its a[href] descendants in document order; cols holds, for each of its  *)
(* div.col-md-6 descendants, the text nodes of that column.                *)
(***************************************************************************)
JsLit       == <<"j", "a", "v", "a", "s", "c", "r", "i", "p", "t", ":">>
OpenMessLit == <<"o", "p", "e", "n", "M", "e", "s", "s">>
TelPriveLit == <<"T", "e", "l", " ", "p", "r", "i", "v", "e">>  \* "Tél privé"
MobileLit   == <<"M", "o", "b", "i", "l", "e">>

\* the class [\d\s\(\)] of the phone patterns
PhoneClass == Digit \cup Space \cup {"(", ")"}

\* heading_row.find_next_sibling("div", class_="row"): the index of the first
\* later sibling that is a div of class row (a heading row is one too), 0
\* when there is none
IsDivRow(e) == e.kind \in {"heading", "row"}
find_next_sibling(doc, i) ==
    LET js == {j \in (i + 1)..Len(doc) : IsDivRow(doc[j])}
    IN  IF js = {} THEN 0 ELSE Min(js)

\* _extract_role
_extract_role(heading_row) ==
    IF heading_row.h5 # NoTag THEN Strip(heading_row.h5) ELSE NA

\* _extract_name
_extract_name(data_row) ==
    IF data_row.ftName # NoTag THEN Strip(data_row.ftName) ELSE None

\* select_one("a[href*='javascript:openMess']"): the href of the first link
\* whose href contains javascript:openMess, as a sequence of 0 or 1 hrefs
IsOpenMessLink(href) == Contains(href, JsLit \o OpenMessLit)
SelectOpenMess(links) ==
    LET ks == {k \in 1..Len(links) : IsOpenMessLink(links[k])}
    IN  IF ks = {} THEN <<>> ELSE <<links[Min(ks)]>>

\* openMess\('([^']*)',\s*'([^']*)'\) matched at position p of href h:
\*   a the first character of group 1, b the quote closing it,
\*   c the quote opening group 2, d the quote closing it
EmailA(h, p) == p + Len(OpenMessLit) + 2
EmailB(h, p) == SkipNotQuote(h, EmailA(h, p))
EmailC(h, p) == SkipClass(h, EmailB(h, p) + 2, Space)
EmailD(h, p) == SkipNotQuote(h, EmailC(h, p) + 1)
EmailMatchesAt(h, p) ==
    /\ StartsWith(h, p, OpenMessLit \o <<"(", "'">>)
    /\ CharAt(h, EmailB(h, p)) = "'"
    /\ CharAt(h, EmailB(h, p) + 1) = ","
    /\ CharAt(h, EmailC(h, p)) = "'"
    /\ CharAt(h, EmailD(h, p)) = "'"
    /\ CharAt(h, EmailD(h, p) + 1) = ")"
EmailGroups(h, p) ==
    [domain |-> SubSeq(h, EmailA(h, p), EmailB(h, p) - 1),
     user   |-> SubSeq(h, EmailC(h, p) + 1, EmailD(h, p) - 1)]

\* a slip that joins the two captured groups in the order of the pattern
FormatEmailSwapped(domain, user) == domain \o <<"@">> \o user

\* f"{user}@{domain}"
FormatEmail(domain, user) == user \o <<"@">> \o domain

\* re.search over the href: the leftmost match
EmailOfHref(h) ==
    LET ps == {p \in 1..Len(h) : EmailMatchesAt(h, p)}
    IN  IF ps = {} THEN NA
        ELSE LET g == EmailGroups(h, Min(ps)) IN FormatEmail(g.domain, g.user)

\* _extract_email
_extract_email(data_row) ==
    LET tag == SelectOpenMess(data_row.links)
    IN  IF tag # <<>> THEN EmailOfHref(tag[1]) ELSE NA

\* <label>\s*:\s*(\+[\d\s\(\)]+) matched at position p of text t:
\*   b the ':' after the label, d the '+', e the position after group 1
PhoneB(t, p, label) == SkipClass(t, p + Len(label), Space)
PhoneD(t, p, label) == SkipClass(t, PhoneB(t, p, label) + 1, Space)
PhoneE(t, p, label) == SkipClass(t, PhoneD(t, p, label) + 1, PhoneClass)
PhoneMatchesAt(t, p, label) ==
    /\ StartsWith(t, p, label)
    /\ CharAt(t, PhoneB(t, p, label)) = ":"
    /\ CharAt(t, PhoneD(t, p, label)) = "+"
    /\ PhoneE(t, p, label) > PhoneD(t, p, label) + 1
PhoneGroup(t, p, label) ==
    SubSeq(t, PhoneD(t, p, label), PhoneE(t, p, label) - 1)

\* re.search for one label and match.group(1).strip(), "N/A" without a match
PhoneOf(t, label) ==
    LET ps == {p \in 1..Len(t) : PhoneMatchesAt(t, p, label)}
    IN  IF ps = {} THEN NA ELSE Strip(PhoneGroup(t, Min(ps), label))

\* _extract_phone_numbers
_extract_phone_numbers(data_row) ==
    IF Len(data_row.cols) > 1
    THEN LET contact_text == GetText(data_row.cols[2], <<" ">>)
         IN  [mobile_phone  |-> PhoneOf(contact_text, MobileLit),
              private_phone |-> PhoneOf(contact_text, TelPriveLit)]
    ELSE [mobile_phone |-> NA, private_phone |-> NA]

\* whether a step of the try block raises: reading the role label of the
\* heading or the name of the data block
Raised(heading_row, data_row) ==
    heading_row.h5 = Raises \/ data_row.ftName = Raises

\* _extract_trainer_info for the heading at index i: a sequence of 0 or 1
\* records (None is the empty sequence); except Exception returns None
_extract_trainer_info(doc, i, club_name) ==
    LET j == find_next_sibling(doc, i)
    IN  IF j = 0 THEN <<>>
        ELSE IF Raised(doc[i], doc[j]) THEN <<>>
        ELSE LET role   == _extract_role(doc[i])
                 name   == _extract_name(doc[j])
                 phones == _extract_phone_numbers(doc[j])
             IN  IF name = None \/ name = <<>> THEN <<>>
                 ELSE <<[club          |-> club_name,
                         role          |-> role,
                         name          |-> name,
                         mobile_phone  |-> phones.mobile_phone,
                         private_phone |-> phones.private_phone,
                         email         |-> _extract_email(doc[j])]>>

\* a slip that lets the exception of one fragment end the loop: the records
\* of the headings after it are lost
RECURSIVE ParseAborting(_, _, _)
ParseAborting(doc, i, club_name) ==
    IF i > Len(doc) THEN <<>>
    ELSE IF /\ doc[i].kind = "heading"
            /\ find_next_sibling(doc, i) # 0
            /\ Raised(doc[i], doc[find_next_sibling(doc, i)])
         THEN <<>>
    ELSE (IF doc[i].kind = "heading"
          THEN _extract_trainer_info(doc, i, club_name) ELSE <<>>)
         \o ParseAborting(doc, i + 1, club_name)

\* parse_trainer_data: the records of the headings, in document order
RECURSIVE ParseFrom(_, _, _)
ParseFrom(doc, i, club_name) ==
    IF i > Len(doc) THEN <<>>
    ELSE (IF doc[i].kind = "heading"
          THEN _extract_trainer_info(doc, i, club_name) ELSE <<>>)
         \o ParseFrom(doc, i + 1, club_name)

parse_trainer_data(html_content, club_name) ==
    IF html_content = <<>> THEN <<>> ELSE ParseFrom(html_content, 1, club_name)

(***************************************************************************)
(* Values of the variables a specification does not use.                   *)
(***************************************************************************)
EmptyMap == [x \in {} |-> {}]

RunIdle ==
    /\ clubs = <<>> /\ retries = 0 /\ diskFaulty = FALSE
    /\ idx = 0 /\ attempt = 0 /\ nAttempts = 0 /\ waits = <<>> /\ missingAt = 0
    /\ fetchRet = "none" /\ html = <<>> /\ trainers_data = <<>>
    /\ results = EmptyMap /\ extracted = EmptyMap /\ log = <<>>
    /\ interrupts = <<>>

AggIdle ==
    /\ books = EmptyMap /\ summary = <<>> /\ aggOp = "none" /\ aggRet = FALSE

FnIdle == arg = <<>> /\ ret = <<>>

(***************************************************************************)
(* The extractor applied to a drawn document: specification SpecExtract.   *)
(***************************************************************************)
TxtCoach == <<"T", "1">>
TxtAnn   == <<" ", "A", "n", "n", " ">>
TxtBlank == <<" ">>
TxtD     == <<"d", ".", "c">>
TxtU     == <<"u">>
TxtClub  == <<"F", "C">>

Elem(kind, h5, ftName, links, cols) ==
    [kind |-> kind, h5 |-> h5, ftName |-> ftName, links |-> links, cols |-> cols]

HrefJs(domain, user) ==
    JsLit \o OpenMessLit \o <<"(", "'">> \o domain \o <<"'", ",", "'">> \o user
          \o <<"'", ")">>

ContactNodes ==
    << TelPriveLit \o <<" ", ":", " ", "+", "4", "1", " ", "2", "7">>,
       MobileLit \o <<" ", ":", " ", "+", "4", "1", " ", "7", "9", " ">> >>

HeadingElems ==
    { Elem("heading", h5, NoTag, <<>>, <<>>) :
          h5 \in {NoTag, TxtCoach, TxtBlank, <<>>, Raises} }

RowElems ==
    { Elem("row", NoTag, TxtAnn, <<HrefJs(TxtD, TxtU)>>, <<<<TxtAnn>>, ContactNodes>>),
      Elem("row", NoTag, TxtAnn, <<>>, <<<<TxtAnn>>>>),
      Elem("row", NoTag, TxtBlank, <<>>, <<>>),
      Elem("row", NoTag, NoTag, <<>>, <<>>),
      Elem("row", NoTag, Raises, <<>>, <<>>) }

OtherElems == { Elem("other", NoTag, NoTag, <<>>, <<>>) }

ElemU == HeadingElems \cup RowElems \cup OtherElems

SeqsUpTo(S, n) == UNION {[1..k -> S] : k \in 0..n}

InitExtract ==
    /\ RunIdle /\ AggIdle
    /\ files = EmptyMap
    /\ pc = "ready"
    /\ arg \in SeqsUpTo(ElemU, MaxElems)
    /\ ret = <<>>

ApplyExtract ==
    /\ pc = "ready"
    /\ pc' = "applied"
    /\ ret' = parse_trainer_data(arg, TxtClub)
    /\ UNCHANGED <<arg, files>>
    /\ UNCHANGED <<runVars, aggVars>>

SpecExtract == InitExtract /\ [][ApplyExtract]_vars

\* C6: every record returned by extract has a non-empty name, and every
\* other field of it is present and is not the empty string.
C6_NoEmptyField ==
    pc = "applied" =>
        \A k \in 1..Len(ret) :
            /\ DOMAIN ret[k] = Fields
            /\ \A f \in Fields : ret[k][f] # <<>> /\ ret[k][f] # None

\* the same, for the name alone and for the fields other than the role
C6_AllButRole ==
    pc = "applied" =>
        \A k \in 1..Len(ret) :
            /\ DOMAIN ret[k] = Fields
            /\ \A f \in Fields \ {"role"} : ret[k][f] # <<>> /\ ret[k][f] # None

C6_Witness == pc = "applied" /\ Len(ret) = 2

(***************************************************************************)
(* _extract_email applied to a drawn data block: specification SpecEmail.  *)
(*                                                                         *)
(* The input describes the links of the block, each by its shape:          *)
(*   "two"  openMess('D','U')    two single-quoted arguments               *)
(*   "one"  openMess('D')        one argument                              *)
(*   "dq"   openMess("D","U")    double-quoted arguments                   *)
(*   "url"  an ordinary address                                            *)
(* js tells whether the call carries the javascript: scheme, ws the number *)
(* of spaces after the comma.  BuildHref writes the href out.              *)
(***************************************************************************)
TxtExampleCom == <<"e", "x", "a", "m", "p", "l", "e", ".", "c", "o", "m">>
TxtJdoe       == <<"j", "d", "o", "e">>
TxtUrl        == <<"h", "t", "t", "p", ":", "/", "/", "x">>

Spaces(n) == [k \in 1..n |-> " "]

LinkSpecs ==
    [shape : {"two", "one", "dq", "url"}, js : BOOLEAN, ws : 0..1,
     who : {[domain |-> TxtD, user |-> TxtU],
            [domain |-> TxtExampleCom, user |-> TxtJdoe]}]

BuildHref(l) ==
    LET scheme == IF l.js THEN JsLit ELSE <<>>
        d == l.who.domain
        u == l.who.user
    IN  CASE l.shape = "two" ->
                scheme \o OpenMessLit \o <<"(", "'">> \o d \o <<"'", ",">>
                       \o Spaces(l.ws) \o <<"'">> \o u \o <<"'", ")">>
          [] l.shape = "one" ->
                scheme \o OpenMessLit \o <<"(", "'">> \o d \o <<"'", ")">>
          [] l.shape = "dq" ->
                scheme \o OpenMessLit \o <<"(", "\"">> \o d \o <<"\"", ",">>
                       \o Spaces(l.ws) \o <<"\"">> \o u \o <<"\"", ")">>
          [] OTHER -> TxtUrl

BuildLinks(ls) == [k \in 1..Len(ls) |-> BuildHref(ls[k])]

InitEmail ==
    /\ RunIdle /\ AggIdle
    /\ files = EmptyMap
    /\ pc = "ready"
    /\ arg \in SeqsUpTo(LinkSpecs, MaxLinks)
    /\ ret = <<>>

ApplyEmail ==
    /\ pc = "ready"
    /\ pc' = "applied"
    /\ ret' = _extract_email(Elem("row", NoTag, TxtAnn, BuildLinks(arg), <<>>))
    /\ UNCHANGED <<arg, files>>
    /\ UNCHANGED <<runVars, aggVars>>

SpecEmail == InitEmail /\ [][ApplyEmail]_vars

\* C7, as stated: a data block whose link is the call openMess('D','U') has
\* the email U@D (the target openMess('example.com','jdoe'), written without
\* a scheme, included); a data block with no link of this pattern has "N/A".
C7_AsStated ==
    pc = "applied" =>
        /\ (Len(arg) = 1 /\ arg[1].shape = "two")
              => ret = arg[1].who.user \o <<"@">> \o arg[1].who.domain
        /\ (\A k \in 1..Len(arg) : arg[k].shape # "two") => ret = NA

\* C7, amended: the link that decides is the first one whose target contains
\* javascript:openMess.  When that link is javascript:openMess('D','U') (any
\* spaces after the comma) the email is U@D; when it has another shape, or
\* the block has no such link, the email is "N/A".
IsJsCall(l) == l.js /\ l.shape # "url"
C7_Email ==
    pc = "applied" =>
        LET ks == {k \in 1..Len(arg) : IsJsCall(arg[k])}
        IN  IF ks = {} THEN ret = NA
            ELSE LET l == arg[Min(ks)]
                 IN  IF l.shape = "two"
                     THEN ret = l.who.user \o <<"@">> \o l.who.domain
                     ELSE ret = NA

C7_Witness ==
    /\ pc = "applied"
    /\ Len(arg) = 2
    /\ arg[1].shape = "url"
    /\ arg[2] = [shape |-> "two", js |-> TRUE, ws |-> 1,
                 who |-> [domain |-> TxtExampleCom, user |-> TxtJdoe]]
    /\ ret = TxtJdoe \o <<"@">> \o TxtExampleCom

(***************************************************************************)
(* _extract_phone_numbers applied to a drawn contact column: specification *)
(* SpecPhone.                                                              *)
(*                                                                         *)
(* The input describes the second div.col-md-6 of a data block: for each   *)
(* label, whether a line with it is there, whether its number has the      *)
(* leading '+', and the characters after it; which of the two lines comes  *)
(* first; and the number of spaces on each side of the ':'.                *)
(***************************************************************************)
NumChars == {"7", " ", "("}

HasDigit(t) == \E k \in 1..Len(t) : t[k] \in Digit

NumBodies ==
    {b \in UNION {[1..n -> NumChars] : n \in 1..MaxNumLen} : HasDigit(b)}

LineSpecs == [present : {TRUE}, plus : BOOLEAN, body : NumBodies]
                 \cup {[present |-> FALSE, plus |-> FALSE, body |-> <<"7">>]}

PhoneInputs ==
    [mobile : LineSpecs, private : LineSpecs, mobileFirst : BOOLEAN, pad : 0..1]

\* the number as written on the page
NumberText(l) == (IF l.plus THEN <<"+">> ELSE <<>>) \o l.body

BuildLine(label, l, pad) ==
    label \o Spaces(pad) \o <<":">> \o Spaces(pad) \o NumberText(l)

BuildNodes(in) ==
    LET m == IF in.mobile.present
             THEN <<BuildLine(MobileLit, in.mobile, in.pad)>> ELSE <<>>
        p == IF in.private.present
             THEN <<BuildLine(TelPriveLit, in.private, in.pad)>> ELSE <<>>
    IN  IF in.mobileFirst THEN m \o p ELSE p \o m

InitPhone ==
    /\ RunIdle /\ AggIdle
    /\ files = EmptyMap
    /\ pc = "ready"
    /\ arg \in PhoneInputs
    /\ ret = <<>>

ApplyPhone ==
    /\ pc = "ready"
    /\ pc' = "applied"
    /\ ret' = _extract_phone_numbers(
                  Elem("row", NoTag, TxtAnn, <<>>, <<<<TxtAnn>>, BuildNodes(arg)>>))
    /\ UNCHANGED <<arg, files>>
    /\ UNCHANGED <<runVars, aggVars>>

SpecPhone == InitPhone /\ [][ApplyPhone]_vars

\* what the claim gives a field: the number of its own line trimmed, with or
\* without the leading '+', and "N/A" when the line is not there
ExpectedPhone(l) == IF l.present THEN Strip(NumberText(l)) ELSE NA

\* C8, as stated: each field is decided by its own label alone; a label
\* followed by ':' and digits, spaces and parentheses, with or without a
\* leading '+', gives that sequence trimmed, an absent label gives "N/A".
C8_AsStated ==
    pc = "applied" =>
        /\ ret.mobile_phone = ExpectedPhone(arg.mobile)
        /\ ret.private_phone = ExpectedPhone(arg.private)

\* what the code does: the same for the numbers that have the leading '+',
\* and "N/A" for a number written without it
C8_WithPlus ==
    pc = "applied" =>
        /\ ret.mobile_phone =
              IF arg.mobile.plus THEN ExpectedPhone(arg.mobile) ELSE NA
        /\ ret.private_phone =
              IF arg.private.plus THEN ExpectedPhone(arg.private) ELSE NA

(***************************************************************************)
(* Row store (club_scraper.py, save_to_csv)                                *)
(*                                                                         *)
(* The output directory maps the stem of each .csv file to its content: a  *)
(* header (the column names) and the data rows, each a map from its column *)
(* to the text of the cell.  A file without header is a file of no bytes.  *)
(***************************************************************************)
Csv(cols, rows) == [cols |-> cols, rows |-> rows]
EmptyFile == Csv(<<>>, <<>>)

Put(f, k, v) == [x \in DOMAIN f \cup {k} |-> IF x = k THEN v ELSE f[x]]

\* re.sub(r'[\\/*?:"<>|]', "", club_name)
FsReserved == {"\\", "/", "*", "?", ":", "\"", "<", ">", "|"}
IsFsSafe(c) == c \notin FsReserved
SafeName(club_name) == SelectSeq(club_name, IsFsSafe)

\* csv.DictWriter: writeheader(), then writerows(trainers_data)
WriteCsv(data) == Csv(CSV_FIELDNAMES, data)

\* what a write that raised IOError after open(filepath, "w") left behind:
\* nothing (written = 0), or the header and the first written - 1 rows
PartialCsv(data, written) ==
    IF written = 0 THEN EmptyFile
    ELSE Csv(CSV_FIELDNAMES, SubSeq(data, 1, written - 1))

\* how the file system answers one save:
\*   "ok", "open_fails" (IOError from open: nothing is touched) or
\*   "write_fails" (IOError after the file was truncated)
IoOutcomes(faulty, n) ==
    {[kind |-> "ok", written |-> n + 1]}
        \cup (IF faulty
              THEN {[kind |-> "open_fails", written |-> 0]}
                       \cup [kind : {"write_fails"}, written : 0..n]
              ELSE {})

\* a slip that opens (and so truncates) the file before looking at the records
SaveOpeningFirst(fs, data, club_name, io) ==
    IF io.kind = "ok"
    THEN [ok |-> data # <<>>, files |-> Put(fs, SafeName(club_name), WriteCsv(data))]
    ELSE [ok |-> FALSE, files |-> fs]

\* a slip that opens the file for appending: the rows of an earlier run stay
SaveAppending(fs, data, club_name, io) ==
    IF data = <<>> \/ io.kind # "ok" THEN [ok |-> FALSE, files |-> fs]
    ELSE LET stem == SafeName(club_name)
             old  == IF stem \in DOMAIN fs THEN fs[stem].rows ELSE <<>>
         IN  [ok |-> TRUE, files |-> Put(fs, stem, Csv(CSV_FIELDNAMES, old \o data))]

\* save_to_csv: the value returned and the directory afterwards
save_to_csv(fs, data, club_name, io) ==
    IF data = <<>> THEN [ok |-> FALSE, files |-> fs]
    ELSE CASE io.kind = "ok" ->
                [ok |-> TRUE,
                 files |-> Put(fs, SafeName(club_name), WriteCsv(data))]
           [] io.kind = "open_fails" ->
                [ok |-> FALSE, files |-> fs]
           [] OTHER ->
                [ok |-> FALSE,
                 files |-> Put(fs, SafeName(club_name),
                               PartialCsv(data, io.written))]

(***************************************************************************)
(* Fetcher and orchestrator (club_scraper.py)                              *)
(***************************************************************************)
\* how one subprocess.run of curl ends: output with text in it, a non-zero
\* exit (CalledProcessError), TimeoutExpired, an empty body, or no curl
\* (FileNotFoundError)
Outcomes == {"ok", "exit", "timeout", "empty", "notfound"}

\* a handler that logs the missing tool and goes on to the retry
NeverFatal(outcome) == FALSE

\* except FileNotFoundError: ... return None
IsFatal(outcome) == outcome = "notfound"

\* a backoff that doubles, as the comment beside it says
WaitTimeDoubling(a) == 2 ^ (a + 1)

\* wait_time = (attempt + 1) * 2
wait_time(a) == (a + 1) * 2

\* if attempt < retries
MoreAttempts(a, r) == a < r

\* a loop that sleeps after every target
DelayAlways(i, total_clubs) == TRUE

\* if i < total_clubs
ShouldDelay(i, total_clubs) == i < total_clubs

\* a loop that gives up at the first target that failed
StopOnFailure(i, total_clubs, success) ==
    IF ~success THEN "done"
    ELSE IF ShouldDelay(i, total_clubs) THEN "delay" ELSE "done"

\* where the loop of scrape_all_clubs goes once results[club_name] is set;
\* success plays no part in it
AfterClub(i, total_clubs, success) ==
    IF ShouldDelay(i, total_clubs) THEN "delay" ELSE "done"

DelayMark == <<"<delay>">>

\* the documents the portal may answer with: no heading, one contact, two
RowFull ==
    Elem("row", NoTag, TxtAnn, <<HrefJs(TxtD, TxtU)>>, <<<<TxtAnn>>, ContactNodes>>)
RowBare == Elem("row", NoTag, <<"B", "o">>, <<>>, <<<<TxtAnn>>>>)
Heading == Elem("heading", TxtCoach, NoTag, <<>>, <<>>)
DocU == { <<Elem("other", NoTag, NoTag, <<>>, <<>>)>>,
          <<Heading, RowFull>>,
          <<Heading, RowFull, Heading, RowBare>> }

\* the target names: two of them differ only by a reserved character
ClubU == { <<"A", "B">>, <<"A", "/", "B">>, <<"C">> }

Range(q) == {q[k] : k \in 1..Len(q)}
DistinctSeqs(S, n) ==
    {q \in SeqsUpTo(S, n) : \A a, b \in 1..Len(q) : a # b => q[a] # q[b]}

\* the directory before the run: nothing, or the file of an earlier run
StaleRows == parse_trainer_data(<<Heading, RowBare>>, <<"A", "B">>)
InitDirs == { EmptyMap, [x \in {<<"A", "B">>} |-> WriteCsv(StaleRows)] }

(***************************************************************************)
(* One run of scrape_all_clubs: specification Spec.                        *)
(*                                                                         *)
(* The run is cut at its blocking calls: a subprocess.run of curl          *)
(* (Attempt), the backoff sleep (Backoff), the extraction (Parse), the     *)
(* file write (Save) and the sleep between two targets (Delay).            *)
(***************************************************************************)
club_name == clubs[idx]

FetchReset ==
    /\ attempt' = 0 /\ nAttempts' = 0 /\ waits' = <<>> /\ missingAt' = 0
    /\ fetchRet' = "pending" /\ html' = <<>> /\ trainers_data' = <<>>

InitRun ==
    /\ AggIdle /\ FnIdle
    /\ clubs \in DistinctSeqs(ClubU, MaxClubs)
    /\ retries \in 0..MaxRetries
    /\ diskFaulty \in BOOLEAN
    /\ files \in InitDirs
    /\ pc = "start"
    /\ idx = 0 /\ attempt = 0 /\ nAttempts = 0 /\ waits = <<>> /\ missingAt = 0
    /\ fetchRet = "none" /\ html = <<>> /\ trainers_data = <<>>
    /\ results = EmptyMap /\ extracted = EmptyMap /\ log = <<>>
    /\ interrupts = <<>>

\* scrape_all_clubs up to the first fetch: results = {}, the loop is entered
Start ==
    /\ pc = "start"
    /\ pc' = IF Len(clubs) = 0 THEN "done" ELSE "attempt"
    /\ idx' = IF Len(clubs) = 0 THEN 0 ELSE 1
    /\ FetchReset
    /\ UNCHANGED <<clubs, retries, diskFaulty, results, extracted, log, files>>
    /\ UNCHANGED <<aggVars, fnVars, interrupts>>

\* scrape_club returned success for the current target
Record(success) ==
    /\ results' = Put(results, club_name, success)
    /\ log' = Append(log, club_name)
    /\ pc' = AfterClub(idx, Len(clubs), success)

\* one subprocess.run of curl and what fetch_html_with_curl does with it
Attempt ==
    /\ pc = "attempt"
    /\ \E outcome \in Outcomes, doc \in DocU :
          /\ nAttempts' = nAttempts + 1
          /\ missingAt' = IF outcome = "notfound" THEN nAttempts + 1 ELSE missingAt
          /\ IF outcome = "ok"
             THEN /\ html' = doc
                  /\ fetchRet' = "html"
                  /\ pc' = "parse"
                  /\ UNCHANGED <<results, log>>
             ELSE IF IsFatal(outcome)
             THEN /\ fetchRet' = "missing"
                  /\ Record(FALSE)
                  /\ UNCHANGED html
             ELSE IF MoreAttempts(attempt, retries)
             THEN /\ pc' = "backoff"
                  /\ UNCHANGED <<fetchRet, html, results, log>>
             ELSE /\ fetchRet' = "failed"
                  /\ Record(FALSE)
                  /\ UNCHANGED html
    /\ UNCHANGED <<clubs, retries, diskFaulty, idx, attempt, waits,
                   trainers_data, extracted, files>>
    /\ UNCHANGED <<aggVars, fnVars, interrupts>>

\* time.sleep(wait_time), then the next attempt of the loop
Backoff ==
    /\ pc = "backoff"
    /\ waits' = Append(waits, wait_time(attempt))
    /\ attempt' = attempt + 1
    /\ pc' = "attempt"
    /\ UNCHANGED <<clubs, retries, diskFaulty, idx, nAttempts, missingAt,
                   fetchRet, html, trainers_data, results, extracted, log, files>>
    /\ UNCHANGED <<aggVars, fnVars, interrupts>>

\* trainers_data = self.parse_trainer_data(html, club_name)
Parse ==
    /\ pc = "parse"
    /\ trainers_data' = parse_trainer_data(html, club_name)
    /\ extracted' = Put(extracted, club_name, trainers_data')
    /\ pc' = "save"
    /\ UNCHANGED <<clubs, retries, diskFaulty, idx, attempt, nAttempts, waits,
                   missingAt, fetchRet, html, results, log, files>>
    /\ UNCHANGED <<aggVars, fnVars, interrupts>>

\* return self.save_to_csv(trainers_data, club_name)
Save ==
    /\ pc = "save"
    /\ \E io \in IoOutcomes(diskFaulty, Len(trainers_data)) :
          LET r == save_to_csv(files, trainers_data, club_name, io)
          IN  /\ files' = r.files
              /\ Record(r.ok)
    /\ UNCHANGED <<clubs, retries, diskFaulty, idx, attempt, nAttempts, waits,
                   missingAt, fetchRet, html, trainers_data, extracted>>
    /\ UNCHANGED <<aggVars, fnVars, interrupts>>

\* time.sleep(DELAY_BETWEEN_REQUESTS), then the next target of the loop
Delay ==
    /\ pc = "delay"
    /\ log' = Append(log, DelayMark)
    /\ IF idx < Len(clubs)
       THEN /\ idx' = idx + 1
            /\ pc' = "attempt"
            /\ FetchReset
       ELSE /\ pc' = "done"
            /\ UNCHANGED <<idx, attempt, nAttempts, waits, missingAt, fetchRet,
                           html, trainers_data>>
    /\ UNCHANGED <<clubs, retries, diskFaulty, results, extracted, files>>
    /\ UNCHANGED <<aggVars, fnVars, interrupts>>

Next == Start \/ Attempt \/ Backoff \/ Parse \/ Save \/ Delay

Init == InitRun

Spec == Init /\ [][Next]_vars

\* the same run on a disk whose writes never fail
InitSoundDisk == InitRun /\ ~diskFaulty
SpecSoundDisk == InitSoundDisk /\ [][Next]_vars

(***************************************************************************)
(* Claims about the run                                                    *)
(***************************************************************************)
\* the backoff sleeps of a fetch that used up r retries: 2, 4, ..., 2r
BackoffPlan(r) == [k \in 1..r |-> 2 * k]

IsClub(e) == e # DelayMark

C2_MissingToolAborts ==
    missingAt > 0 =>
        /\ fetchRet = "missing"
        /\ nAttempts = missingAt
        /\ Len(waits) = missingAt - 1
        /\ pc \in {"delay", "done"}
        /\ club_name \in DOMAIN results /\ results[club_name] = FALSE

C2_Witness ==
    /\ missingAt = 2
    /\ retries = 3
    /\ fetchRet = "missing"
    /\ waits = <<2>>

\* C3: when scrape_all_clubs returns, every target of the input has been
\* processed, in the configured order, and the results map has one boolean
\* for each target and nothing else, whichever targets failed.
C3_RunCompletes ==
    pc = "done" =>
        /\ DOMAIN results = Range(clubs)
        /\ \A c \in DOMAIN results : results[c] \in BOOLEAN
        /\ SelectSeq(log, IsClub) = clubs

\* the first target failed at the fetch, the second one was saved
C3_Witness ==
    /\ pc = "done"
    /\ Len(clubs) = 2
    /\ clubs[1] \notin DOMAIN extracted
    /\ results[clubs[1]] = FALSE
    /\ results[clubs[2]] = TRUE

\* C4: a run over n >= 1 targets sleeps n - 1 inter-request delays: one
\* between every two successive targets and none after the last.
C4_DelaysBetween ==
    (pc = "done" /\ Len(clubs) >= 1) =>
        /\ Len(log) = 2 * Len(clubs) - 1
        /\ \A k \in 1..Len(log) :
              IF k % 2 = 1 THEN log[k] = clubs[(k + 1) \div 2]
                           ELSE log[k] = DelayMark

\* the delay was slept after a target that failed
C4_Witness ==
    /\ pc = "done"
    /\ Len(clubs) = 2
    /\ results[clubs[1]] = FALSE
    /\ log = <<clubs[1], DelayMark, clubs[2]>>

\* C5: after a run, every target whose fetch succeeded and whose document
\* yielded at least one record has its row-store file, holding the header
\* and exactly the records extracted for that target, in document order.
C5_FileHoldsRecords ==
    pc = "done" =>
        \A t \in DOMAIN extracted :
            extracted[t] # <<>> =>
                /\ SafeName(t) \in DOMAIN files
                /\ files[SafeName(t)] = Csv(CSV_FIELDNAMES, extracted[t])

\* C9: a save with no record leaves every file of the directory as it was
\* (none created, truncated or removed) and the target is reported false.
C9_EmptySaveWritesNothing ==
    [][(pc = "save" /\ trainers_data = <<>>) =>
           (files' = files /\ results'[club_name] = FALSE)]_vars

\* the empty save happened for a target whose file of an earlier run is there
C9_Witness ==
    /\ pc \in {"delay", "done"}
    /\ fetchRet = "html"
    /\ trainers_data = <<>>
    /\ results[club_name] = FALSE
    /\ SafeName(club_name) \in DOMAIN files
    /\ files[SafeName(club_name)] = WriteCsv(StaleRows)

(***************************************************************************)
(* Aggregator (data_processor.py)                                          *)
(*                                                                         *)
(* A DataFrame has the columns of the file and its rows; a cell is a text  *)
(* or NaN.  The cells of the model hold at least one character that is no  *)
(* digit, so that read_csv keeps every column as text.                     *)
(***************************************************************************)
COMBINED_XLSX_FILENAME == <<"c", "o", "m", "b", "i", "n", "e", "d">>

\* some of the strings pd.read_csv reads as a missing value
NaStrings ==
    { <<>>, NA, <<"N", "A">>, <<"n", "/", "a">>, <<"n", "a", "n">>,
      <<"N", "a", "N">>, <<"N", "U", "L", "L">>, <<"n", "u", "l", "l">> }

ReadCell(v) == IF v \in NaStrings THEN NaN ELSE v

\* whether pd.read_csv raises (EmptyDataError: a file of no bytes)
ReadFails(c) == c.cols = <<>>

\* pd.read_csv of a file that parses
read_csv(c) ==
    [cols |-> c.cols,
     rows |-> [k \in 1..Len(c.rows) |->
                  [col \in DOMAIN c.rows[k] |-> ReadCell(c.rows[k][col])]]]

\* df.empty
DfEmpty(df) == df.rows = <<>> \/ df.cols = <<>>

\* a validation that forgets to look for data rows
ValidateColumnsOnly(c) ==
    IF ReadFails(c) THEN FALSE
    ELSE Fields \ Range(read_csv(c).cols) = {}

\* validate_csv_structure
validate_csv_structure(c) ==
    IF ReadFails(c) THEN FALSE
    ELSE LET df == read_csv(c)
             missing_columns == Fields \ Range(df.cols)
         IN  IF missing_columns # {} THEN FALSE
             ELSE IF DfEmpty(df) THEN FALSE
             ELSE TRUE

\* str.replace(r"\s+", " ", regex=True)
RECURSIVE CollapseWs(_)
CollapseWs(t) ==
    IF t = <<>> THEN <<>>
    ELSE IF Head(t) \in Space
         THEN <<" ">> \o CollapseWs(SubSeq(t, SkipClass(t, 1, Space), Len(t)))
         ELSE <<Head(t)>> \o CollapseWs(Tail(t))

string_columns == {"club", "role", "name", "email"}
phone_columns  == {"mobile_phone", "private_phone"}

FillNa(v)       == IF v = NaN THEN NA ELSE v
ReplaceEmpty(v) == IF v = <<>> THEN NA ELSE v

CleanCell(col, v) ==
    LET a == ReplaceEmpty(FillNa(v))
    IN  IF col \in string_columns THEN Strip(a)
        ELSE IF col \in phone_columns THEN CollapseWs(Strip(a))
        ELSE a

CleanRow(row) == [col \in DOMAIN row |-> CleanCell(col, row[col])]

\* dropna(how="all") keeps the rows with a cell that is not NaN
HasValue(row) == \E col \in DOMAIN row : row[col] # NaN

\* clean_data
clean_data(df) ==
    [cols |-> df.cols,
     rows |-> SelectSeq([k \in 1..Len(df.rows) |-> CleanRow(df.rows[k])], HasValue)]

\* the order of str: by code point, character by character (the printable
\* ASCII characters but the grave accent)
Ascii ==
    << " ", "!", "\"", "#", "$", "%", "&", "'", "(", ")", "*", "+",
       ",", "-", ".", "/", "0", "1", "2", "3", "4", "5", "6", "7",
       "8", "9", ":", ";", "<", "=", ">", "?", "@", "A", "B", "C",
       "D", "E", "F", "G", "H", "I", "J", "K", "L", "M", "N", "O",
       "P", "Q", "R", "S", "T", "U", "V", "W", "X", "Y", "Z", "[",
       "\\", "]", "^", "_", "a", "b", "c", "d", "e", "f", "g",
       "h", "i", "j", "k", "l", "m", "n", "o", "p", "q", "r", "s",
       "t", "u", "v", "w", "x", "y", "z", "{", "|", "}", "~" >>

Rank(c) == CHOOSE k \in 1..Len(Ascii) : Ascii[k] = c

RECURSIVE TextLess(_, _)
TextLess(a, b) ==
    IF b = <<>> THEN FALSE
    ELSE IF a = <<>> THEN TRUE
    ELSE IF Head(a) = Head(b) THEN TextLess(Tail(a), Tail(b))
    ELSE Rank(Head(a)) < Rank(Head(b))

\* the order of sort_values(["club", "role", "name"])
KeyLess(r, q) ==
    \/ TextLess(r.club, q.club)
    \/ r.club = q.club /\ TextLess(r.role, q.role)
    \/ r.club = q.club /\ r.role = q.role /\ TextLess(r.name, q.name)

\* r put behind the rows that do not come after it: the sort is stable
RECURSIVE InsertRow(_, _)
InsertRow(sorted, r) ==
    IF sorted = <<>> THEN <<r>>
    ELSE IF KeyLess(r, Head(sorted)) THEN <<r>> \o sorted
    ELSE <<Head(sorted)>> \o InsertRow(Tail(sorted), r)

RECURSIVE sort_values(_)
sort_values(rows) ==
    IF rows = <<>> THEN <<>>
    ELSE InsertRow(sort_values(SubSeq(rows, 1, Len(rows) - 1)), rows[Len(rows)])

\* _sanitize_sheet_name
ExcelInvalid == {"[", "]", "*", "?", ":", "/", "\\"}
IsSheetChar(c) == c \notin ExcelInvalid
SheetNameMax == 31
_sanitize_sheet_name(name) ==
    LET stripped == SelectSeq(name, IsSheetChar)
        cut == IF Len(stripped) > SheetNameMax
               THEN SubSeq(stripped, 1, SheetNameMax) ELSE stripped
    IN  IF cut = <<>> THEN <<"S", "h", "e", "e", "t">> ELSE cut

\* _adjust_column_widths: min(longest cell of the column + 2, 50), the
\* header cell included
WidthCap == 50
HeaderLen ==
    [club |-> 4, role |-> 4, name |-> 4, mobile_phone |-> 12,
     private_phone |-> 13, email |-> 5]
Max(S) == CHOOSE x \in S : \A y \in S : x >= y
_adjust_column_widths(cols, rows) ==
    [col \in Range(cols) |->
        LET max_length ==
                Max({HeaderLen[col]} \cup {Len(rows[k][col]) : k \in 1..Len(rows)})
        IN  IF max_length + 2 < WidthCap THEN max_length + 2 ELSE WidthCap]

\* a worksheet; src (history) is the set of the files written into it
Sheet(name, cols, rows, src) ==
    [name |-> name, cols |-> cols, rows |-> rows,
     widths |-> _adjust_column_widths(cols, rows), src |-> src]

\* the files of the directory in the order glob("*.csv") may list them
Orders(S) == {q \in [1..Cardinality(S) -> S] : Range(q) = S}

\* df.to_excel(writer, sheet_name=name): a new sheet, or, when the writer
\* already holds a sheet of that name, the cells of df written over it
AddSheet(sheets, name, df, stem) ==
    LET js == {j \in 1..Len(sheets) : sheets[j].name = name}
    IN  IF js = {} THEN Append(sheets, Sheet(name, df.cols, df.rows, {stem}))
        ELSE LET j   == Min(js)
                 old == sheets[j]
                 rows == df.rows \o SubSeq(old.rows, Len(df.rows) + 1, Len(old.rows))
             IN  [sheets EXCEPT ![j] = Sheet(name, df.cols, rows, old.src \cup {stem})]

\* the loop of _combine_to_separate_sheets over the first k files
RECURSIVE SeparateSheets(_, _, _)
SeparateSheets(fs, order, k) ==
    IF k = 0 THEN <<>>
    ELSE LET prev == SeparateSheets(fs, order, k - 1)
             stem == order[k]
         IN  IF ~validate_csv_structure(fs[stem]) THEN prev
             ELSE AddSheet(prev, _sanitize_sheet_name(stem),
                           clean_data(read_csv(fs[stem])), stem)

\* _combine_to_separate_sheets as called by combine_csv_files_to_xlsx: a
\* workbook without a sheet cannot be saved, the exception is caught by the
\* caller and the file the writer opened is left with no workbook in it
_combine_to_separate_sheets(bs, fs, order, output) ==
    LET sheets == SeparateSheets(fs, order, Len(order))
    IN  [ok |-> sheets # <<>>, books |-> Put(bs, output, sheets)]

\* the loop of _combine_to_single_sheet: the cleaned frames of the valid files
RECURSIVE AllData(_, _, _)
AllData(fs, order, k) ==
    IF k = 0 THEN <<>>
    ELSE LET prev == AllData(fs, order, k - 1)
             stem == order[k]
         IN  IF ~validate_csv_structure(fs[stem]) THEN prev
             ELSE Append(prev, [df |-> clean_data(read_csv(fs[stem])), stem |-> stem])

RECURSIVE Concat(_)
Concat(all_data) ==
    IF all_data = <<>> THEN <<>>
    ELSE Head(all_data).df.rows \o Concat(Tail(all_data))

AllClubsLit == <<"A", "l", "l", " ", "C", "l", "u", "b", "s">>
TrainersLit == <<"T", "r", "a", "i", "n", "e", "r", "s">>

\* a slip that writes the concatenated rows without sorting them
SingleSheetUnsorted(bs, fs, order, output) ==
    LET all_data == AllData(fs, order, Len(order))
    IN  IF all_data = <<>> THEN [ok |-> FALSE, books |-> bs]
        ELSE [ok |-> TRUE,
              books |-> Put(bs, output,
                            <<Sheet(AllClubsLit, all_data[1].df.cols,
                                    Concat(all_data),
                                    {all_data[k].stem : k \in 1..Len(all_data)})>>)]

\* _combine_to_single_sheet
_combine_to_single_sheet(bs, fs, order, output) ==
    LET all_data == AllData(fs, order, Len(order))
    IN  IF all_data = <<>> THEN [ok |-> FALSE, books |-> bs]
        ELSE [ok |-> TRUE,
              books |-> Put(bs, output,
                            <<Sheet(AllClubsLit, all_data[1].df.cols,
                                    sort_values(Concat(all_data)),
                                    {all_data[k].stem : k \in 1..Len(all_data)})>>)]

\* combine_csv_files_to_xlsx
combine_csv_files_to_xlsx(bs, fs, order, output, separate_sheets) ==
    IF order = <<>> THEN [ok |-> FALSE, books |-> bs]
    ELSE IF separate_sheets THEN _combine_to_separate_sheets(bs, fs, order, output)
    ELSE _combine_to_single_sheet(bs, fs, order, output)

\* convert_csv_to_xlsx: the workbook is named after the file
convert_csv_to_xlsx(bs, fs, stem) ==
    IF ~validate_csv_structure(fs[stem]) THEN [ok |-> FALSE, books |-> bs]
    ELSE LET df == clean_data(read_csv(fs[stem]))
         IN  [ok |-> TRUE,
              books |-> Put(bs, stem, <<Sheet(TrainersLit, df.cols, df.rows, {stem})>>)]

\* the loop of get_data_summary over the first k files
RECURSIVE SummaryLoop(_, _, _)
SummaryLoop(fs, order, k) ==
    IF k = 0
    THEN [total_files |-> Len(order), total_trainers |-> 0, clubs |-> <<>>,
          files_with_errors |-> <<>>]
    ELSE LET prev == SummaryLoop(fs, order, k - 1)
             stem == order[k]
         IN  IF validate_csv_structure(fs[stem])
             THEN LET df == read_csv(fs[stem])
                      name == IF ~DfEmpty(df) THEN df.rows[1]["club"] ELSE stem
                  IN  [prev EXCEPT
                         !.clubs = Append(@, [name |-> name, trainers |-> Len(df.rows),
                                              file |-> stem]),
                         !.total_trainers = @ + Len(df.rows)]
             ELSE [prev EXCEPT !.files_with_errors = Append(@, stem)]

\* get_data_summary
get_data_summary(fs, order) == SummaryLoop(fs, order, Len(order))

(***************************************************************************)
(* The aggregator over a drawn directory: specification SpecAgg.           *)
(***************************************************************************)
Row(club, role, name, mobile, private, email) ==
    [club |-> club, role |-> role, name |-> name, mobile_phone |-> mobile,
     private_phone |-> private, email |-> email]

Without(row, col) == [c \in DOMAIN row \ {col} |-> row[c]]

RowAnn(club) ==
    Row(club, TxtCoach, TxtAnn, <<"+", "4", "1", " ", " ", "7", "9">>, NA,
        <<"u", "@", "d", ".", "c">>)
RowBo(club) == Row(club, <<"T", "2">>, <<"B", "o">>, NA, NA, <<>>)

\* what a file of the directory may hold: one or two rows of a club, the
\* rows of a file without the email column, a header alone, or no byte
ContentsOf(club) ==
    { Csv(CSV_FIELDNAMES, <<RowAnn(club)>>),
      Csv(CSV_FIELDNAMES, <<RowBo(club), RowAnn(club)>>),
      Csv(SelectSeq(CSV_FIELDNAMES, LAMBDA c : c # "email"),
          <<Without(RowAnn(club), "email")>>),
      Csv(CSV_FIELDNAMES, <<>>),
      EmptyFile }

StemU == { <<"A", "B">>, <<"A", "[", "B", "]">>, <<"C">> }

Dirs ==
    UNION { {d \in [S -> UNION {ContentsOf(st) : st \in S}] :
                \A st \in S : d[st] \in ContentsOf(st)} :
            S \in {T \in SUBSET StemU : Cardinality(T) <= MaxFiles} }

InitAgg ==
    /\ RunIdle /\ FnIdle
    /\ pc = "aggregate"
    /\ files \in Dirs
    /\ books = EmptyMap /\ summary = <<>> /\ aggOp = "none" /\ aggRet = FALSE

Combine ==
    /\ pc = "aggregate"
    /\ \E order \in Orders(DOMAIN files), separate_sheets \in BOOLEAN :
          LET r == combine_csv_files_to_xlsx(books, files, order,
                                             COMBINED_XLSX_FILENAME, separate_sheets)
          IN  /\ books' = r.books
              /\ aggRet' = r.ok
              /\ aggOp' = IF separate_sheets THEN "separate" ELSE "single"
    /\ UNCHANGED <<pc, files, summary, runVars, fnVars>>

Convert ==
    /\ pc = "aggregate"
    /\ \E stem \in DOMAIN files :
          LET r == convert_csv_to_xlsx(books, files, stem)
          IN  /\ books' = r.books
              /\ aggRet' = r.ok
              /\ aggOp' = "convert"
    /\ UNCHANGED <<pc, files, summary, runVars, fnVars>>

Summarize ==
    /\ pc = "aggregate"
    /\ \E order \in Orders(DOMAIN files) :
          summary' = <<get_data_summary(files, order)>>
    /\ aggOp' = "summary"
    /\ aggRet' = TRUE
    /\ UNCHANGED <<pc, files, books, runVars, fnVars>>

NextAgg == Combine \/ Convert \/ Summarize

SpecAgg == InitAgg /\ [][NextAgg]_vars

(***************************************************************************)
(* Claims about the aggregator                                             *)
(***************************************************************************)
\* a file that fails validation as the claim words it: a schema column is
\* not in its header, or it has no data row
LacksColumn(c) == \E col \in Fields : col \notin Range(c.cols)
FailsValidation(c) == LacksColumn(c) \/ c.rows = <<>>

RECURSIVE RowSum(_, _)
RowSum(fs, S) ==
    IF S = {} THEN 0
    ELSE LET g == CHOOSE x \in S : TRUE
         IN  Len(fs[g].rows) + RowSum(fs, S \ {g})

PassingFiles == {g \in DOMAIN files : ~FailsValidation(files[g])}

\* C10: a file that fails validation is in no aggregate and is reported
\* invalid: no sheet of a combined workbook (separate sheets or single
\* sheet) was written from it, the single sheet has the rows of the other
\* files only, no workbook was converted from it, and a summary lists its
\* name among the invalid files and in no per-club entry.
C10_InvalidExcluded ==
    \A f \in DOMAIN files :
        FailsValidation(files[f]) =>
            /\ f \notin DOMAIN books
            /\ \A b \in DOMAIN books :
                  \A j \in 1..Len(books[b]) :
                      /\ f \notin books[b][j].src
                      /\ books[b][j].name = AllClubsLit
                            => Len(books[b][j].rows) = RowSum(files, PassingFiles)
            /\ summary # <<>> =>
                  /\ f \in Range(summary[1].files_with_errors)
                  /\ \A k \in 1..Len(summary[1].clubs) :
                        summary[1].clubs[k].file # f

\* a file without the email column beside a good one, after a combine, a
\* conversion and a summary
C10_Witness ==
    \E f, g \in DOMAIN files :
        /\ "email" \notin Range(files[f].cols) /\ files[f].rows # <<>>
        /\ ~FailsValidation(files[g])
        /\ COMBINED_XLSX_FILENAME \in DOMAIN books
        /\ Len(books[COMBINED_XLSX_FILENAME]) = 1
        /\ books[COMBINED_XLSX_FILENAME][1].src = {g}
        /\ g \in DOMAIN books
        /\ summary # <<>>
        /\ summary[1].files_with_errors = <<f>>

\* the same for a file that has the header and no data row
C10_WitnessHeaderOnly ==
    \E f, g \in DOMAIN files :
        /\ files[f] = Csv(CSV_FIELDNAMES, <<>>)
        /\ ~FailsValidation(files[g])
        /\ aggOp = "single" /\ aggRet
        /\ books[COMBINED_XLSX_FILENAME][1].src = {g}
        /\ summary # <<>>
        /\ summary[1].files_with_errors = <<f>>

(***************************************************************************)
(* clean_data applied to a drawn table, and again to its own result:       *)
(* specification SpecClean.  ret holds the successive results.             *)
(***************************************************************************)
\* what a cell of the table may be: missing, the empty string, blank, a
\* text with spaces around it, a phone number with a run of spaces in it
CellU ==
    { NaN, <<>>, <<" ">>, <<" ", "A", " ">>, <<"+", "4", " ", " ", "7">> }

\* the rows of the table: a for club and role, b for name and email, c for
\* the two phone columns
TableRows == { Row(a, a, b, c, c, b) : a, b, c \in CellU }

Tables == { [cols |-> CSV_FIELDNAMES, rows |-> q] : q \in SeqsUpTo(TableRows, MaxRows) }

InitClean ==
    /\ RunIdle /\ AggIdle
    /\ files = EmptyMap
    /\ pc = "clean"
    /\ arg \in Tables
    /\ ret = <<>>

\* df = self.clean_data(df), on the table first and then on what it returned
Clean ==
    /\ pc = "clean"
    /\ Len(ret) < 2
    /\ ret' = Append(ret, clean_data(IF ret = <<>> THEN arg ELSE ret[Len(ret)]))
    /\ UNCHANGED <<pc, arg, files>>
    /\ UNCHANGED <<runVars, aggVars>>

SpecClean == InitClean /\ [][Clean]_vars

IsMissing(v) == v = NaN
IsBlank(v)   == v # NaN /\ Strip(v) = <<>>

\* C11: cleaning the cleaned table gives the cleaned table, cell for cell,
\* for every table, those with missing, empty and whitespace-only cells
\* included.
C11_Idempotent == Len(ret) = 2 => ret[2] = ret[1]

\* the same for the tables none of whose cells is made of whitespace only
C11_NoWhitespaceCell ==
    (/\ Len(ret) = 2
     /\ \A k \in 1..Len(arg.rows) : \A col \in Fields : arg.rows[k][col] # <<" ">>)
        => ret[2] = ret[1]

\* C18: after clean no cell is missing or blank: every cell that was
\* missing, the empty string or made of whitespace only is exactly "N/A",
\* in every column.
C18_NoBlankCell ==
    Len(ret) >= 1 =>
        /\ Len(ret[1].rows) = Len(arg.rows)
        /\ \A k \in 1..Len(ret[1].rows) : \A col \in Fields :
              /\ ~IsMissing(ret[1].rows[k][col])
              /\ ~IsBlank(ret[1].rows[k][col])
              /\ (IsMissing(arg.rows[k][col]) \/ IsBlank(arg.rows[k][col]))
                    => ret[1].rows[k][col] = NA

\* the same for the cells that were missing or the empty string
C18_MissingOrEmpty ==
    Len(ret) >= 1 =>
        /\ Len(ret[1].rows) = Len(arg.rows)
        /\ \A k \in 1..Len(ret[1].rows) : \A col \in Fields :
              (IsMissing(arg.rows[k][col]) \/ arg.rows[k][col] = <<>>)
                  => ret[1].rows[k][col] = NA

\* C19: a row in which every cell is missing is not in the output: the
\* output has as many rows as the input has rows with a present cell.
C19_DropsEmptyRows ==
    Len(ret) >= 1 =>
        Len(ret[1].rows) = Len(SelectSeq(arg.rows, HasValue))

\* what the code does: every row of the input is in the output, a row of
\* missing cells as a row of "N/A"
C19_KeepsEveryRow ==
    Len(ret) >= 1 =>
        /\ Len(ret[1].rows) = Len(arg.rows)
        /\ \A k \in 1..Len(arg.rows) :
              ~HasValue(arg.rows[k]) => ret[1].rows[k] = Row(NA, NA, NA, NA, NA, NA)


\* the cleaned rows of the files of S, file after file
RECURSIVE CleanedRows(_, _)
CleanedRows(fs, S) ==
    IF S = {} THEN <<>>
    ELSE LET g == CHOOSE x \in S : TRUE
         IN  clean_data(read_csv(fs[g])).rows \o CleanedRows(fs, S \ {g})

\* how many times the row r is in q
Count(q, r) == Cardinality({k \in 1..Len(q) : q[k] = r})

SameRows(q, p) == \A r \in Range(q) \cup Range(p) : Count(q, r) = Count(p, r)

\* ascending by club, then role, then name
IsSorted(q) == \A i, j \in 1..Len(q) : i < j => ~KeyLess(q[j], q[i])

\* C12: a single-sheet combine writes one sheet whose rows are the cleaned
\* rows of all the valid files, each as often as the files hold it, so as
\* many as the valid files have rows, in ascending order of club, role and
\* name; with no valid file it returns false and writes no workbook.
C12_SingleSheet ==
    [][aggOp' = "single" =>
          IF PassingFiles = {}
          THEN aggRet' = FALSE /\ books' = books
          ELSE /\ aggRet' = TRUE
               /\ Len(books'[COMBINED_XLSX_FILENAME]) = 1
               /\ LET sheet == books'[COMBINED_XLSX_FILENAME][1]
                  IN  /\ sheet.name = AllClubsLit
                      /\ SameRows(sheet.rows, CleanedRows(files, PassingFiles))
                      /\ Len(sheet.rows) = RowSum(files, PassingFiles)
                      /\ IsSorted(sheet.rows)]_vars

\* files of 1 and 2 rows gave a sheet of 3 rows, the rows of the second
\* file in another order than the file has them
C12_Witness ==
    \E f, g \in DOMAIN files :
        /\ Len(files[f].rows) = 1 /\ Len(files[g].rows) = 2
        /\ PassingFiles = {f, g}
        /\ ~IsSorted(files[g].rows)
        /\ aggOp = "single" /\ aggRet
        /\ Len(books[COMBINED_XLSX_FILENAME][1].rows) = 3
        /\ IsSorted(books[COMBINED_XLSX_FILENAME][1].rows)

\* a single-sheet combine over a directory without a valid file
C12_WitnessNoValidFile ==
    /\ DOMAIN files # {} /\ PassingFiles = {}
    /\ aggOp = "single" /\ ~aggRet
    /\ books = EmptyMap


\* what the claim puts on the sheet of the file f
OwnSheet(sh, f) ==
    /\ sh.name = _sanitize_sheet_name(f)
    /\ sh.rows = clean_data(read_csv(files[f])).rows
    /\ sh.src = {f}

\* C13: a separate-sheets combine writes one sheet per valid file: the
\* workbook has as many sheets as there are valid files, each holding the
\* cleaned rows of its own file only, under the file stem without the
\* characters [ ] * ? : / \ and cut to 31 characters.
C13_OneSheetPerFile ==
    (aggOp = "separate" /\ DOMAIN files # {}) =>
        LET sheets == books[COMBINED_XLSX_FILENAME]
        IN  /\ Len(sheets) = Cardinality(PassingFiles)
            /\ \A f \in PassingFiles : \E j \in 1..Len(sheets) : OwnSheet(sheets[j], f)

\* the same for the directories whose valid files have different sheet names
C13_DistinctNames ==
    (/\ aggOp = "separate" /\ DOMAIN files # {}
     /\ \A f, g \in PassingFiles :
           f # g => _sanitize_sheet_name(f) # _sanitize_sheet_name(g))
        => LET sheets == books[COMBINED_XLSX_FILENAME]
           IN  /\ Len(sheets) = Cardinality(PassingFiles)
               /\ \A f \in PassingFiles :
                     \E j \in 1..Len(sheets) : OwnSheet(sheets[j], f)


(***************************************************************************)
(* Claims about the pairing of headings and data blocks, and about the     *)
(* fragments that are skipped (specification SpecExtract)                  *)
(***************************************************************************)
\* the records of the headings from index i on, each heading read together
\* with the element that immediately follows it when that is a data block
RECURSIVE AdjacentRecords(_, _)
AdjacentRecords(doc, i) ==
    IF i > Len(doc) THEN <<>>
    ELSE (IF /\ doc[i].kind = "heading"
             /\ i < Len(doc)
             /\ doc[i + 1].kind = "row"
          THEN parse_trainer_data(<<doc[i], doc[i + 1]>>, TxtClub)
          ELSE <<>>)
         \o AdjacentRecords(doc, i + 1)

\* C15: a heading is paired only with the data block that immediately
\* follows it: a heading followed by another heading, by some other element
\* or by nothing gives no record, and no data block goes to a heading it
\* does not immediately follow.
C15_ImmediateSibling ==
    pc = "applied" => ret = AdjacentRecords(arg, 1)

\* the indices of the headings whose fragment gives a record: the heading
\* has a later sibling div.row, no step raises on the two, and the name is
\* there
GivesRecord(doc, i) ==
    /\ doc[i].kind = "heading"
    /\ find_next_sibling(doc, i) # 0
    /\ LET data_row == doc[find_next_sibling(doc, i)]
       IN  /\ doc[i].h5 # Raises
           /\ data_row.ftName \notin {Raises, NoTag}
           /\ Strip(data_row.ftName) # <<>>

\* the k-th smallest element of a set of numbers
RECURSIVE Nth(_, _)
Nth(S, k) == IF k = 1 THEN Min(S) ELSE Nth(S \ {Min(S)}, k - 1)

\* C16: extract returns, for a document with any mix of well-formed,
\* name-less and exception-raising fragments, exactly the records of the
\* well-formed fragments that have a name, in document order: the k-th
\* record is what the k-th such fragment gives when it stands alone.
C16_IsolatesErrors ==
    pc = "applied" =>
        LET good == {i \in 1..Len(arg) : GivesRecord(arg, i)}
        IN  /\ Len(ret) = Cardinality(good)
            /\ \A k \in 1..Len(ret) :
                  LET i == Nth(good, k)
                  IN  <<ret[k]>> =
                         parse_trainer_data(<<arg[i], arg[find_next_sibling(arg, i)]>>,
                                            TxtClub)

\* a fragment whose heading raises, then a well-formed one: one record
C16_Witness ==
    /\ pc = "applied"
    /\ Len(arg) = 4
    /\ arg[1].kind = "heading" /\ arg[1].h5 = Raises
    /\ arg[2].kind = "row" /\ arg[2].ftName = TxtAnn
    /\ arg[3].kind = "heading" /\ arg[3].h5 = TxtCoach
    /\ arg[4].kind = "row" /\ arg[4].ftName = TxtAnn
    /\ Len(ret) = 1
    /\ ret[1].role = TxtCoach

\* a well-formed fragment, then one whose data block raises
C16_WitnessAfter ==
    /\ pc = "applied"
    /\ Len(arg) = 4
    /\ arg[1].kind = "heading" /\ arg[1].h5 = TxtCoach
    /\ arg[2].kind = "row" /\ arg[2].ftName = TxtAnn
    /\ arg[3].kind = "heading"
    /\ arg[4].kind = "row" /\ arg[4].ftName = Raises
    /\ Len(ret) = 1


(***************************************************************************)
(* save_to_csv applied to drawn records over a drawn directory, and again  *)
(* with the same records: specification SpecSave.  arg holds the records,  *)
(* the target and the directory before the first save; ret holds, for each *)
(* save, the value it returned and the directory it left.                  *)
(***************************************************************************)
\* the records of an earlier run of the target: more of them than any save
\* of the model writes
EarlierRows(club) ==
    <<Row(club, <<"T", "0">>, <<"Z", "o", "e">>, NA, NA, NA),
      RowBo(club), RowAnn(club)>>

\* the directory before the save: empty, holding the file of an earlier run
\* of the target, or that file and the file of another target
DirsBefore(club) ==
    LET own   == SafeName(club)
        other == <<"D">>
    IN  { EmptyMap,
          [x \in {own} |-> WriteCsv(EarlierRows(club))],
          [x \in {own, other} |->
              IF x = own THEN WriteCsv(<<RowAnn(club)>>)
              ELSE WriteCsv(<<RowBo(other)>>)] }

InitSave ==
    /\ RunIdle /\ AggIdle
    /\ pc = "saving"
    /\ \E club \in ClubU :
          /\ files \in DirsBefore(club)
          /\ \E data \in SeqsUpTo({RowAnn(club), RowBo(club)}, MaxRecords) :
                arg = [data |-> data, club |-> club, before |-> files]
    /\ ret = <<>>

\* self.save_to_csv(trainers_data, club_name), at most twice
SaveRecords ==
    /\ pc = "saving"
    /\ Len(ret) < 2
    /\ \E io \in IoOutcomes(TRUE, Len(arg.data)) :
          LET r == save_to_csv(files, arg.data, arg.club, io)
          IN  /\ files' = r.files
              /\ ret' = Append(ret, r)
    /\ UNCHANGED <<pc, arg>>
    /\ UNCHANGED <<runVars, aggVars>>

SpecSave == InitSave /\ [][SaveRecords]_vars

\* C17: once a save has returned true, the file of the target holds the
\* header and exactly the given records in input order, whatever it held
\* before, and no other file has changed; a second successful save of the
\* same records leaves the directory as the first one left it.
C17_Overwrite ==
    /\ (ret # <<>> /\ ret[Len(ret)].ok) =>
          /\ DOMAIN files = DOMAIN arg.before \cup {SafeName(arg.club)}
          /\ files[SafeName(arg.club)].cols = CSV_FIELDNAMES
          /\ files[SafeName(arg.club)].rows = arg.data
          /\ \A f \in DOMAIN arg.before \ {SafeName(arg.club)} :
                files[f] = arg.before[f]
    /\ (Len(ret) = 2 /\ ret[1].ok /\ ret[2].ok) => ret[2].files = ret[1].files

\* one record saved twice over the three records of an earlier run
C17_Witness ==
    /\ Len(ret) = 2 /\ ret[1].ok /\ ret[2].ok
    /\ Len(arg.data) = 1
    /\ SafeName(arg.club) \in DOMAIN arg.before
    /\ Len(arg.before[SafeName(arg.club)].rows) = 3
    /\ Len(files[SafeName(arg.club)].rows) = 1


(***************************************************************************)
(* main (scrape_clubs.py): specification SpecMain.                         *)
(*                                                                         *)
(* arg holds the command line: whether the selected names are all in the   *)
(* configuration, the flags --xlsx, --combine and --summary, and (history) *)
(* the output directory as main found it.  ret is empty while main runs    *)
(* and holds the exit status once it has returned.  The run of             *)
(* scrape_all_clubs is the one of Spec, with the default retry limit; it   *)
(* is followed by the steps the flags ask for, each one action.  A user    *)
(* interrupt (KeyboardInterrupt) may arrive wherever main stands.          *)
(***************************************************************************)
Phases == <<"xlsx", "combine", "summary">>

\* the step that follows the k-th of the optional steps (k = 0: the check
\* of the results): the next one whose flag is set, "exit" after the last
PhaseAfter(k) ==
    LET later == {j \in (k + 1)..Len(Phases) : arg[Phases[j]]}
    IN  IF later = {} THEN "exit" ELSE Phases[Min(later)]

\* main goes on after the k-th optional step, and returns 0 after the last
GoOn(k) ==
    /\ pc' = PhaseAfter(k)
    /\ ret' = IF PhaseAfter(k) = "exit" THEN <<0>> ELSE ret

\* a slip that counts the targets processed instead of the successes
ProcessedClubs == Cardinality(DOMAIN results)

\* sum(results.values())
successful_clubs == Cardinality({c \in DOMAIN results : results[c]})

\* for csv_file in csv_files: processor.convert_csv_to_xlsx(csv_file), over
\* the first k files
RECURSIVE ConvertFiles(_, _, _, _)
ConvertFiles(bs, fs, order, k) ==
    IF k = 0 THEN bs
    ELSE convert_csv_to_xlsx(ConvertFiles(bs, fs, order, k - 1), fs, order[k]).books

InitMain ==
    /\ AggIdle
    /\ clubs \in DistinctSeqs(ClubU, MaxClubs)
    /\ retries = MAX_RETRY_ATTEMPTS
    /\ diskFaulty \in BOOLEAN
    /\ files \in InitDirs
    /\ pc = "main"
    /\ idx = 0 /\ attempt = 0 /\ nAttempts = 0 /\ waits = <<>> /\ missingAt = 0
    /\ fetchRet = "none" /\ html = <<>> /\ trainers_data = <<>>
    /\ results = EmptyMap /\ extracted = EmptyMap /\ log = <<>>
    /\ interrupts = <<>>
    /\ arg \in [valid : BOOLEAN, xlsx : BOOLEAN, combine : BOOLEAN,
                summary : BOOLEAN, before : {files}]
    /\ ret = <<>>

\* parse_arguments, setup_logging, validate_clubs: an unknown club name
\* ends main with status 1
ValidateClubs ==
    /\ pc = "main"
    /\ IF arg.valid THEN pc' = "start" /\ ret' = ret
                    ELSE pc' = "exit" /\ ret' = <<1>>
    /\ UNCHANGED <<arg, files, runVars, aggVars>>

\* successful_clubs = sum(results.values()); if successful_clubs == 0: return 1
CheckResults ==
    /\ pc = "done"
    /\ IF successful_clubs = 0 THEN pc' = "exit" /\ ret' = <<1>>
                               ELSE GoOn(0)
    /\ UNCHANGED <<arg, files, runVars, aggVars>>

\* if args.xlsx: every file of the directory is converted
ConvertAll ==
    /\ pc = "xlsx"
    /\ \E order \in Orders(DOMAIN files) :
          books' = ConvertFiles(books, files, order, Len(order))
    /\ aggOp' = "convert"
    /\ GoOn(1)
    /\ UNCHANGED <<arg, files, summary, aggRet, runVars>>

\* if args.combine: success = processor.combine_csv_files_to_xlsx()
CombineAll ==
    /\ pc = "combine"
    /\ \E order \in Orders(DOMAIN files) :
          LET r == combine_csv_files_to_xlsx(books, files, order,
                                             COMBINED_XLSX_FILENAME, TRUE)
          IN  books' = r.books /\ aggRet' = r.ok
    /\ aggOp' = "separate"
    /\ GoOn(2)
    /\ UNCHANGED <<arg, files, summary, runVars>>

\* if args.summary: processor.print_summary()
PrintSummary ==
    /\ pc = "summary"
    /\ \E order \in Orders(DOMAIN files) :
          summary' = <<get_data_summary(files, order)>>
    /\ aggOp' = "summary"
    /\ GoOn(3)
    /\ UNCHANGED <<arg, files, books, aggRet, runVars>>

\* what an interrupted file write leaves: the file as it was (open not yet
\* reached), or truncated with the header and some of the rows
InterruptedFiles ==
    IF pc = "save" /\ trainers_data # <<>>
    THEN {files} \cup
         { Put(files, SafeName(club_name), PartialCsv(trainers_data, w)) :
               w \in 0..(Len(trainers_data) + 1) }
    ELSE {files}

\* what an interrupted conversion or combine leaves: the workbooks of the
\* files it had come to
InterruptedBooks ==
    IF pc = "xlsx"
    THEN UNION { {ConvertFiles(books, files, order, k) : k \in 0..Len(order)} :
                 order \in Orders(DOMAIN files) }
    ELSE IF pc = "combine" /\ DOMAIN files # {}
    THEN {books} \cup
         UNION { {Put(books, COMBINED_XLSX_FILENAME, SeparateSheets(files, order, k)) :
                      k \in 0..Len(order)} :
                 order \in Orders(DOMAIN files) }
    ELSE {books}

\* whether main stands where a bare "except:" is around it: the try of the
\* column-width loops, which runs once for every cell of a written sheet
InBareExcept ==
    /\ pc \in {"xlsx", "combine"}
    /\ \E f \in DOMAIN files : validate_csv_structure(files[f])

\* a user interrupt arrives.  Inside the try of a width loop the bare
\* "except: pass" takes it and the step goes on; anywhere else it is no
\* Exception, passes every handler of the scraper and the processor and
\* reaches main's "except KeyboardInterrupt: return 1".
Interrupt ==
    /\ pc # "exit"
    /\ Len(interrupts) < MaxInterrupts
    /\ \/ /\ InBareExcept
          /\ interrupts' = Append(interrupts, [at |-> pc, caught |-> FALSE])
          /\ UNCHANGED <<pc, ret, files, books>>
       \/ /\ interrupts' = Append(interrupts, [at |-> pc, caught |-> TRUE])
          /\ pc' = "exit"
          /\ ret' = <<1>>
          /\ files' \in InterruptedFiles
          /\ books' \in InterruptedBooks
    /\ UNCHANGED <<clubs, retries, diskFaulty, idx, attempt, nAttempts, waits,
                   missingAt, fetchRet, html, trainers_data, results, extracted,
                   log, summary, aggOp, aggRet, arg>>

NextMain ==
    \/ ValidateClubs
    \/ Next
    \/ CheckResults
    \/ ConvertAll
    \/ CombineAll
    \/ PrintSummary
    \/ Interrupt

SpecMain == InitMain /\ [][NextMain]_vars

\* C14: once a user interrupt has arrived, wherever the run stood, the run
\* has stopped: main has returned, with exit status 1.
C14_InterruptStops ==
    interrupts # <<>> => (pc = "exit" /\ ret = <<1>>)

\* the same for the interrupts that arrive before the workbooks are written:
\* during a fetch attempt, a backoff wait, a delay, the extraction, a file
\* write, the check of the results or the summary
C14_OutsideWorkbooks ==
    (interrupts # <<>> /\ interrupts[1].at \notin {"xlsx", "combine"})
        => (pc = "exit" /\ ret = <<1>>)


\* the j-th optional step of main has run to its end, with no interrupt
StepDone(j) ==
    /\ arg[Phases[j]]
    /\ interrupts = <<>>
    /\ \/ pc \in {Phases[i] : i \in (j + 1)..Len(Phases)}
       \/ pc = "exit" /\ ret = <<0>>

\* the file of stem f is in every aggregate output written so far
InAggregates(f) ==
    /\ StepDone(1) => f \in DOMAIN books
    /\ StepDone(2) =>
          \E j \in 1..Len(books[COMBINED_XLSX_FILENAME]) :
              f \in books[COMBINED_XLSX_FILENAME][j].src
    /\ StepDone(3) =>
          \E k \in 1..Len(summary[1].clubs) : summary[1].clubs[k].file = f

\* the directory held, before the run, a file written for the target t
WrittenFor(t) ==
    /\ SafeName(t) \in DOMAIN arg.before
    /\ \A k \in 1..Len(arg.before[SafeName(t)].rows) :
          arg.before[SafeName(t)].rows[k].club = t

FailedOrNotSelected(t) ==
    \/ t \notin Range(clubs)
    \/ t \in DOMAIN results /\ ~results[t]

\* C20: a file written by an earlier run for a target that failed, or was
\* not selected, in this run is left as it was by this run, and is in the
\* workbooks and the summary that main writes after the run.
C20_EarlierFileKept ==
    \A t \in ClubU :
        (WrittenFor(t) /\ FailedOrNotSelected(t)) =>
            /\ SafeName(t) \in DOMAIN files
            /\ files[SafeName(t)] = arg.before[SafeName(t)]
            /\ InAggregates(SafeName(t))

\* what holds: the aggregate outputs are made from the directory as it is
\* when the step runs: every valid file in it is in them, whichever targets
\* the run selected and whatever their results, and the summary counts
\* every file
C20_DiskStateAggregated ==
    /\ \A f \in DOMAIN files :
          validate_csv_structure(files[f]) => InAggregates(f)
    /\ StepDone(3) => summary[1].total_files = Cardinality(DOMAIN files)

\* the same as C20 for the runs in which no save of another target went to
\* the file of t and no write failed
C20_NoCollisionSoundDisk ==
    \A t \in ClubU :
        (/\ WrittenFor(t) /\ FailedOrNotSelected(t)
         /\ ~diskFaulty
         /\ \A c \in Range(clubs) : c # t => SafeName(c) # SafeName(t))
            => /\ SafeName(t) \in DOMAIN files
               /\ files[SafeName(t)] = arg.before[SafeName(t)]
               /\ InAggregates(SafeName(t))


\* some target of the run was reported true
SomeSuccess == \E c \in DOMAIN results : results[c]

\* no aggregation step has run
NoAggregation == books = EmptyMap /\ summary = <<>> /\ aggOp = "none"

\* C21: when main has returned and no interrupt arrived, its status is
\* non-zero exactly when no target of the run succeeded, and then no
\* conversion, combine or summary step has run; with a success the status
\* is 0, whatever the other targets and the combine step did.  A run none
\* of whose fetches returned a document (the HTTP tool missing throughout)
\* has every target reported false and a non-zero status.
C21_ExitStatus ==
    /\ (pc = "exit" /\ interrupts = <<>>) =>
          /\ ret \in {<<0>>, <<1>>}
          /\ (ret # <<0>>) <=> ~SomeSuccess
          /\ ~SomeSuccess => NoAggregation
          /\ DOMAIN extracted = {} =>
                /\ \A c \in DOMAIN results : ~results[c]
                /\ ret = <<1>>
    /\ (pc \in Range(Phases) /\ interrupts = <<>>) => SomeSuccess

\* a target succeeded, another failed, the combine step failed: status 0
C21_Witness ==
    /\ pc = "exit" /\ interrupts = <<>>
    /\ ret = <<0>>
    /\ arg.combine /\ ~arg.summary
    /\ aggOp = "separate" /\ ~aggRet
    /\ \E c \in DOMAIN results : ~results[c]

\* the HTTP tool was missing for both targets of the run: status 1
C21_WitnessMissingTool ==
    /\ pc = "exit" /\ interrupts = <<>>
    /\ ret = <<1>>
    /\ arg.valid /\ arg.xlsx /\ arg.combine /\ arg.summary
    /\ Len(clubs) = 2 /\ DOMAIN results = Range(clubs)
    /\ fetchRet = "missing" /\ nAttempts = 1
    /\ DOMAIN extracted = {}
    /\ NoAggregation

=============================================================================
